---- MODULE Spec2Model ----
(***************************************************************************)
(* A model of TransmissionCluster.py: the single-pass clustering of a      *)
(* rooted binary tree (prep, cut, min_clusters_threshold_max_clade), the   *)
(* threshold search (argmax_clusters) and the histogram heuristic          *)
(* (gen_hist, get_dist_limit).                                             *)
(*                                                                         *)
(* A node is the path from the root to it: <<>> is the root, Append(n, 1)  *)
(* and Append(n, 2) are n's first and second child.  Lengths, thresholds   *)
(* and confidences are integers in a fixed unit; float('inf') and          *)
(* float('-inf') are the sentinels Inf and NegInf, and the arithmetic on   *)
(* lengths goes through Add, Max2 and Gt, which treat Inf as IEEE does.    *)
(***************************************************************************)
EXTENDS Integers, Sequences, FiniteSets, TLC

VARIABLES
    tree,         \* the parsed tree handed to the operation
    threshold,    \* the distance threshold (the upper bound U in the search)
    support,      \* the support threshold
    pc,           \* position of the running operation
    pos,          \* index of the next node of tree.traverse_postorder()
    edge_length,  \* node.edge_length
    confidence,   \* node.confidence
    DELETED,      \* node.DELETED
    left_dist,    \* node.left_dist
    right_dist,   \* node.right_dist
    leaves,       \* the set of still free leaf labels
    clusters,     \* the list of clusters
    i,            \* argmax_clusters: index of the next candidate
    ys,           \* argmax_clusters: the counts of the candidates scanned
    best_num,     \* argmax_clusters: the best count so far
    raw_t,        \* argmax_clusters: the candidate that holds best_num
    best_t,       \* argmax_clusters: raw_t rounded to 3 decimal places
    best,         \* argmax_clusters: the returned clusters
    pw_dists,     \* gen_hist: the pairwise distances, by pair of leaves
    histarray,    \* gen_hist: the counts of the bins
    binsarray,    \* gen_hist: the bin edges, each multiplied by the bin count
    maxarray,     \* get_dist_limit: the recorded bin edges
    d             \* get_dist_limit: the returned limit

vars == <<tree, threshold, support, pc, pos, edge_length, confidence, DELETED,
          left_dist, right_dist, leaves, clusters, i, ys, best_num, raw_t,
          best_t, best, pw_dists, histarray, binsarray, maxarray, d>>

passVars == <<edge_length, confidence, DELETED, left_dist, right_dist, leaves, clusters, pos>>
searchVars == <<i, ys, best_num, raw_t, best_t, best>>
histVars == <<pw_dists, histarray, binsarray, maxarray, d>>

----------------------------------------------------------------------------
(* Bounds of the model *)

MaxLen == 1
MaxT == 2
LeafNames == <<"A", "B", "C", "D">>

----------------------------------------------------------------------------
(* Numbers *)

Inf == -1
NegInf == -3
None == -2

Add(a, b) == IF a = Inf \/ b = Inf THEN Inf ELSE a + b
Max2(a, b) == IF a = Inf \/ b = Inf THEN Inf ELSE IF a >= b THEN a ELSE b
Gt(a, b) == IF a = Inf THEN b # Inf ELSE b # Inf /\ a > b
Leq(a, b) == ~Gt(a, b)

----------------------------------------------------------------------------
(* Trees *)

Root == <<>>
Child(n, k) == Append(n, k)
is_leaf(nodes, n) == Child(n, 1) \notin nodes
IsRoot(n) == n = Root
Internal(nodes) == {n \in nodes : ~is_leaf(nodes, n)}
LeafNodes(nodes) == {n \in nodes : is_leaf(nodes, n)}
IsPrefix(a, b) == Len(a) <= Len(b) /\ SubSeq(b, 1, Len(a)) = a
Beneath(nodes, n) == {m \in nodes : IsPrefix(n, m)}
Parent(n) == SubSeq(n, 1, Len(n) - 1)

RECURSIVE traverse_postorder(_, _)
traverse_postorder(nodes, n) ==
    IF is_leaf(nodes, n) THEN <<n>>
    ELSE traverse_postorder(nodes, Child(n, 1))
         \o traverse_postorder(nodes, Child(n, 2)) \o <<n>>

RECURSIVE FullTrees(_)
FullTrees(k) ==
    IF k = 1 THEN {{Root}}
    ELSE UNION {{{Root} \cup {<<1>> \o p : p \in L} \cup {<<2>> \o p : p \in R}
                    : L \in FullTrees(j), R \in FullTrees(k - j)}
                : j \in 1..(k - 1)}

Shapes == UNION {FullTrees(k) : k \in 1..Len(LeafNames)}

LeafOrder(nodes) == SelectSeq(traverse_postorder(nodes, Root), LAMBDA n : is_leaf(nodes, n))
LeafName(nodes, n) ==
    LET lo == LeafOrder(nodes)
    IN  LeafNames[CHOOSE k \in 1..Len(lo) : lo[k] = n]

ConfLabels == {"", "0.5", "50"}

MkTree(nodes, el, lb) ==
    [nodes |-> nodes,
     edge_length |-> [n \in nodes |-> IF IsRoot(n) THEN None ELSE el[n]],
     label |-> [n \in nodes |-> IF is_leaf(nodes, n) THEN LeafName(nodes, n)
                                ELSE IF IsRoot(n) THEN "" ELSE lb[n]]]

Trees ==
    UNION {{MkTree(nodes, el, lb)
               : el \in [nodes \ {Root} -> 0..MaxLen],
                 lb \in [Internal(nodes) \ {Root} -> {"", "0.5"}]}
           : nodes \in Shapes}

ScenarioNodes == {Root, <<1>>, <<2>>, <<1, 1>>, <<1, 2>>, <<2, 1>>, <<2, 2>>}
ScenarioTree(l1, l2) ==
    MkTree(ScenarioNodes,
           [n \in ScenarioNodes \ {Root} |-> IF n \in {<<2, 1>>, <<2, 2>>} THEN 3 ELSE 1],
           [n \in {<<1>>, <<2>>} |-> IF n = <<1>> THEN l1 ELSE l2])
ScenarioTrees == {ScenarioTree(l1, l2) : l1 \in ConfLabels, l2 \in ConfLabels}

\* the support threshold: absent (float('-inf')) or 0.8, in hundredths like
\* the confidences
Supports == {NegInf, 80}

----------------------------------------------------------------------------
(* prep *)

\* float(str(node)) on the labels the model draws: the parsed value in
\* hundredths, or None where float() raises.
ParseFloat(label) ==
    CASE label = "50" -> 5000
      [] label = "0.5" -> 50
      [] OTHER -> None

Below_Percent(conf, sup) == sup # NegInf /\ conf < 100 * sup

\* confidence < support, on floats
Below(conf, sup) == sup # NegInf /\ conf < sup

NodeConfidence(label) ==
    IF ParseFloat(label) = None THEN 10000 ELSE ParseFloat(label)

PrepEdgeLength_NoSupport(tr, n, sup) ==
    IF tr.edge_length[n] = None THEN 0 ELSE tr.edge_length[n]

PrepEdgeLength(tr, n, sup) ==
    LET el == IF tr.edge_length[n] = None THEN 0 ELSE tr.edge_length[n]
    IN  IF ~is_leaf(tr.nodes, n) /\ Below(NodeConfidence(tr.label[n]), sup)
        THEN Inf ELSE el

\* The trees of the model are binary, so resolve_polytomies and
\* suppress_unifurcations leave them as they are.  left_dist and right_dist
\* are not attributes of a node until it is visited: None stands for that.
prep(tr, sup) ==
    [edge_length |-> [n \in tr.nodes |-> PrepEdgeLength(tr, n, sup)],
     confidence |-> [n \in tr.nodes |->
                        IF is_leaf(tr.nodes, n) THEN None
                        ELSE NodeConfidence(tr.label[n])],
     DELETED |-> [n \in tr.nodes |-> FALSE],
     left_dist |-> [n \in tr.nodes |-> None],
     right_dist |-> [n \in tr.nodes |-> None],
     leaves |-> {tr.label[n] : n \in LeafNodes(tr.nodes)},
     clusters |-> <<>>,
     err |-> FALSE]

----------------------------------------------------------------------------
(* cut *)

MarkDeleted_NoFlag(s, n) ==
    [s EXCEPT !.left_dist[n] = 0, !.right_dist[n] = 0, !.edge_length[n] = 0]

MarkDeleted(s, n) ==
    [s EXCEPT !.DELETED[n] = TRUE, !.left_dist[n] = 0,
              !.right_dist[n] = 0, !.edge_length[n] = 0]

cutLoop_OnlyNode(tr, s, descendants, cluster) ==
    LET descendant == Head(descendants)
    IN  IF s.DELETED[descendant] THEN [st |-> s, cluster |-> cluster]
        ELSE [st |-> [s EXCEPT !.DELETED[descendant] = TRUE, !.left_dist[descendant] = 0,
                               !.right_dist[descendant] = 0, !.edge_length[descendant] = 0],
              cluster |-> IF is_leaf(tr.nodes, descendant)
                          THEN Append(cluster, tr.label[descendant]) ELSE cluster]

RECURSIVE cutLoop(_, _, _, _)
cutLoop(tr, s, descendants, cluster) ==
    IF descendants = <<>> THEN [st |-> s, cluster |-> cluster]
    ELSE LET descendant == Head(descendants)
             rest == Tail(descendants)
         IN  IF s.DELETED[descendant] THEN cutLoop(tr, s, rest, cluster)
             ELSE IF is_leaf(tr.nodes, descendant)
                  THEN cutLoop(tr, MarkDeleted(s, descendant), rest,
                               Append(cluster, tr.label[descendant]))
                  ELSE cutLoop(tr, MarkDeleted(s, descendant),
                               rest \o <<Child(descendant, 1), Child(descendant, 2)>>,
                               cluster)

cut(tr, s, node) == cutLoop(tr, s, <<node>>, <<>>)

----------------------------------------------------------------------------
(* min_clusters_threshold_max_clade *)

\* for leaf in cluster: leaves.remove(leaf); remove raises KeyError on a
\* label that is not in the set
RECURSIVE RemoveLeaves(_, _)
RemoveLeaves(s, cluster) ==
    IF cluster = <<>> \/ s.err THEN s
    ELSE IF Head(cluster) \in s.leaves
         THEN RemoveLeaves([s EXCEPT !.leaves = @ \ {Head(cluster)}], Tail(cluster))
         ELSE [s EXCEPT !.err = TRUE]

AddCluster(s, cluster) ==
    IF s.err \/ Len(cluster) = 0 THEN s
    ELSE RemoveLeaves([s EXCEPT !.clusters = Append(@, cluster)], cluster)

ChildDist_NoEdge(s, c) ==
    IF s.DELETED[c] THEN 0 ELSE Max2(s.left_dist[c], s.right_dist[c])

ChildDist(s, c) ==
    IF s.DELETED[c] THEN 0
    ELSE Add(Max2(s.left_dist[c], s.right_dist[c]), s.edge_length[c])

ShouldCut_GE(l, r, t) == ~Gt(t, Add(l, r))

ShouldCut(l, r, t) == Gt(Add(l, r), t)

CutBoth(tr, s, node) ==
    LET cl == cut(tr, s, Child(node, 1))
        s1 == [cl.st EXCEPT !.left_dist[node] = 0]
        cr == cut(tr, s1, Child(node, 2))
        s2 == [cr.st EXCEPT !.right_dist[node] = 0]
    IN  AddCluster(AddCluster(s2, cl.cluster), cr.cluster)

\* one iteration of the loop over tree.traverse_postorder()
VisitNode(tr, s, node, t) ==
    IF s.DELETED[node] THEN s
    ELSE IF is_leaf(tr.nodes, node)
         THEN [s EXCEPT !.left_dist[node] = 0, !.right_dist[node] = 0]
         ELSE IF s.DELETED[Child(node, 1)] /\ s.DELETED[Child(node, 2)]
              THEN cut(tr, s, node).st
              ELSE LET s1 == [s EXCEPT !.left_dist[node] = ChildDist(s, Child(node, 1)),
                                       !.right_dist[node] = ChildDist(s, Child(node, 2))]
                   IN  IF ShouldCut(s1.left_dist[node], s1.right_dist[node], t)
                       THEN CutBoth(tr, s1, node)
                       ELSE s1

RECURSIVE Perms(_)
Perms(S) ==
    IF S = {} THEN {<<>>}
    ELSE UNION {{<<x>> \o p : p \in Perms(S \ {x})} : x \in S}

\* clusters.append(list(leaves)): a set is listed in an order the program
\* does not fix
TrailingClusters(s) ==
    IF Cardinality(s.leaves) # 0
    THEN {Append(s.clusters, c) : c \in Perms(s.leaves)}
    ELSE {s.clusters}

RECURSIVE TraverseFrom(_, _, _, _, _)
TraverseFrom(tr, s, po, k, t) ==
    IF k > Len(po) \/ s.err THEN s
    ELSE TraverseFrom(tr, VisitNode(tr, s, po[k], t), po, k + 1, t)

\* the lists of clusters a whole call can return ({} when it raises)
min_clusters_threshold_max_clade(tr, t, sup) ==
    LET s == TraverseFrom(tr, prep(tr, sup), traverse_postorder(tr.nodes, Root), 1, t)
    IN  IF s.err THEN {} ELSE TrailingClusters(s)

----------------------------------------------------------------------------
(* One call of min_clusters_threshold_max_clade, a node at a time *)

PassState ==
    [edge_length |-> edge_length, confidence |-> confidence, DELETED |-> DELETED,
     left_dist |-> left_dist, right_dist |-> right_dist, leaves |-> leaves,
     clusters |-> clusters, err |-> FALSE]

SetPassState(s) ==
    /\ edge_length' = s.edge_length
    /\ confidence' = s.confidence
    /\ DELETED' = s.DELETED
    /\ left_dist' = s.left_dist
    /\ right_dist' = s.right_dist
    /\ leaves' = s.leaves
    /\ clusters' = s.clusters

Postorder == traverse_postorder(tree.nodes, Root)

NoSearch ==
    /\ i = 0 /\ ys = <<>> /\ best_num = -1 /\ raw_t = None /\ best_t = -1 /\ best = <<>>
NoHist ==
    /\ pw_dists = <<>> /\ histarray = <<>> /\ binsarray = <<>> /\ maxarray = <<>> /\ d = None
NoPass ==
    /\ pos = 0 /\ edge_length = <<>> /\ confidence = <<>> /\ DELETED = <<>>
    /\ left_dist = <<>> /\ right_dist = <<>> /\ leaves = {} /\ clusters = <<>>

\* A generated tree that carries a support label is clustered with the
\* support threshold 0.8, one that carries none with support unconstrained;
\* the scenario trees are clustered both ways.
Init ==
    /\ \/ /\ tree \in Trees
          /\ threshold \in 0..MaxT
          /\ support = IF \E n \in tree.nodes : tree.label[n] = "0.5" THEN 80 ELSE NegInf
       \/ /\ tree \in ScenarioTrees
          /\ threshold \in {2, 10}
          /\ support \in Supports
    /\ pc = "prep"
    /\ NoPass /\ NoSearch /\ NoHist

Prep ==
    /\ pc = "prep"
    /\ SetPassState(prep(tree, support))
    /\ pos' = 1
    /\ pc' = "traverse"
    /\ UNCHANGED <<tree, threshold, support, searchVars, histVars>>

Visit ==
    /\ pc = "traverse"
    /\ pos <= Len(Postorder)
    /\ LET s == VisitNode(tree, PassState, Postorder[pos], threshold)
       IN  /\ SetPassState(s)
           /\ pc' = IF s.err THEN "KeyError" ELSE "traverse"
    /\ pos' = pos + 1
    /\ UNCHANGED <<tree, threshold, support, searchVars, histVars>>

Return ==
    /\ pc = "traverse"
    /\ pos > Len(Postorder)
    /\ clusters' \in TrailingClusters(PassState)
    /\ pc' = "done"
    /\ UNCHANGED <<tree, threshold, support, pos, edge_length, confidence, DELETED,
                   left_dist, right_dist, leaves, searchVars, histVars>>

Next == Prep \/ Visit \/ Return

Spec == Init /\ [][Next]_vars

----------------------------------------------------------------------------
(* Vocabulary of the properties *)

Range(f) == {f[k] : k \in DOMAIN f}
LeafLabels == {tree.label[n] : n \in LeafNodes(tree.nodes)}
NodeOf(label) == CHOOSE n \in LeafNodes(tree.nodes) : tree.label[n] = label
LabelsBeneath(n) == {tree.label[m] : m \in Beneath(tree.nodes, n) \cap LeafNodes(tree.nodes)}
Flatten(cs) == [k \in 1..Len(cs) |-> Range(cs[k])]
Visited(n) ==
    /\ pc \in {"traverse", "done"}
    /\ \E k \in 1..Len(Postorder) : Postorder[k] = n /\ k < pos
LowSupport(n) ==
    /\ n \in Internal(tree.nodes) /\ ~IsRoot(n)
    /\ Below(NodeConfidence(tree.label[n]), support)

RECURSIVE SumLen(_, _)
SumLen(len, S) ==
    IF S = {} THEN 0
    ELSE LET n == CHOOSE n \in S : TRUE
         IN  Add(len[n], SumLen(len, S \ {n}))

\* the nodes whose edges lie on the path from leaf l up to (not above) node c
PathUp(c, l) == {m \in tree.nodes : IsPrefix(c, m) /\ IsPrefix(m, l)}
\* the nodes whose edges lie on the path between two leaves
PathBetween(a, b) ==
    {m \in tree.nodes : (IsPrefix(m, a) /\ ~IsPrefix(m, b)) \/ (IsPrefix(m, b) /\ ~IsPrefix(m, a))}

RECURSIVE MaxOf(_)
MaxOf(S) ==
    IF S = {} THEN 0
    ELSE LET x == CHOOSE x \in S : TRUE
         IN  Max2(x, MaxOf(S \ {x}))

PreparedLen == [n \in tree.nodes |-> PrepEdgeLength(tree, n, support)]
TreeDist(a, b) == SumLen(PreparedLen, PathBetween(a, b))

\* the greatest cumulative edge length from the parent of c down to a leaf
\* beneath c that is not deleted; 0 when there is none
LiveDepth(c) ==
    MaxOf({SumLen(edge_length, PathUp(c, l))
              : l \in {l \in Beneath(tree.nodes, c) \cap LeafNodes(tree.nodes) : ~DELETED[l]}})

----------------------------------------------------------------------------
(* Properties of one call of min_clusters_threshold_max_clade *)

\* C1: Partition law.  leaves.remove never raises, and the returned clusters
\* are non-empty, hold no label twice (within a cluster or across clusters)
\* and together hold every leaf label of the tree.
PartitionLaw ==
    /\ pc # "KeyError"
    /\ pc = "done" =>
          /\ \A k \in 1..Len(clusters) : Len(clusters[k]) > 0
          /\ \A k \in 1..Len(clusters) : \A a, b \in 1..Len(clusters[k]) :
                 a # b => clusters[k][a] # clusters[k][b]
          /\ \A j, k \in 1..Len(clusters) : j # k => Range(clusters[j]) \cap Range(clusters[k]) = {}
          /\ UNION {Range(clusters[k]) : k \in 1..Len(clusters)} = LeafLabels

PartitionWitness ==
    /\ pc = "done"
    /\ Len(clusters) = 3
    /\ \E k \in 1..Len(clusters) : Len(clusters[k]) = 2
    /\ Cardinality(LeafLabels) = 4

\* C2: Support forcing.  For a non-root internal node n whose confidence is
\* below the support threshold: the edge above n is infinite from prep until
\* n's parent is visited, the visit of n's parent cuts n, and no returned
\* cluster holds both a leaf beneath n and a leaf that is not beneath n.
SupportForcing ==
    \A n \in tree.nodes : LowSupport(n) =>
        /\ (pc = "traverse" /\ ~Visited(Parent(n))) => edge_length[n] = Inf /\ ~DELETED[n]
        /\ Visited(Parent(n)) => DELETED[n] /\ DELETED[Child(Parent(n), 1)] /\ DELETED[Child(Parent(n), 2)]
        /\ pc = "done" =>
              \A k \in 1..Len(clusters) :
                  \/ Range(clusters[k]) \subseteq LabelsBeneath(n)
                  \/ Range(clusters[k]) \cap LabelsBeneath(n) = {}

\* a low-support node in a tree that the same threshold leaves in one cluster
\* when support is unconstrained
SupportForcingWitness ==
    /\ pc = "done"
    /\ \E n \in tree.nodes : LowSupport(n)
    /\ \A cs \in min_clusters_threshold_max_clade(tree, threshold, NegInf) : Len(cs) = 1
    /\ Len(clusters) = 2

IsScenarioTree == tree.nodes = ScenarioNodes /\ tree \in ScenarioTrees

\* C5 as stated: Scenario C.  With a non-root internal node labelled "50",
\* s = 0.8 and t = 10, that node's edge length is +infinity after prep and the
\* leaves beneath it are returned as a cluster of their own.
ScenarioC_Original ==
    (IsScenarioTree /\ support = 80 /\ threshold = 10) =>
        \A n \in {<<1>>, <<2>>} : tree.label[n] = "50" =>
            /\ (pc = "traverse" /\ pos = 1) => edge_length[n] = Inf
            /\ pc = "done" => \E k \in 1..Len(clusters) : Range(clusters[k]) = LabelsBeneath(n)

\* C5 amended: "50" parses to 50.0, which is not below 0.8, so the edge keeps
\* its length 1, and when no node has a confidence below s the call returns
\* the single cluster {A,B,C,D} at t = 10; a node whose parsed confidence is
\* below s (label "0.5") gets edge length +infinity and the leaves beneath it
\* are returned as a cluster of their own.
ScenarioC_Amended ==
    (IsScenarioTree /\ support = 80 /\ threshold = 10) =>
        /\ \A n \in {<<1>>, <<2>>} :
              (tree.label[n] = "50" /\ pc = "traverse" /\ pos = 1) => edge_length[n] = 1
        /\ (\A n \in {<<1>>, <<2>>} : tree.label[n] # "0.5") =>
              (pc = "done" => Len(clusters) = 1 /\ Range(clusters[1]) = {"A", "B", "C", "D"})
        /\ \A n \in {<<1>>, <<2>>} : tree.label[n] = "0.5" =>
              /\ (pc = "traverse" /\ pos = 1) => edge_length[n] = Inf
              /\ pc = "done" => \E k \in 1..Len(clusters) : Range(clusters[k]) = LabelsBeneath(n)

ScenarioC_Witness ==
    /\ IsScenarioTree /\ support = 80 /\ threshold = 10
    /\ pc = "done"
    /\ tree.label[<<1>>] = "50"
    /\ tree.label[<<2>>] = ""
    /\ Len(clusters) = 1

\* C6 as stated: Meaning of left_dist/right_dist.  Between the steps of a
\* pass, for every visited internal node that is not deleted, left_dist
\* (right_dist) is the greatest cumulative edge length from the node down to
\* a leaf that is not deleted through its first (second) child, and 0 when
\* no such leaf is left beneath that child.
DistMeaning ==
    pc \in {"traverse", "done"} =>
        \A n \in Internal(tree.nodes) : (Visited(n) /\ ~DELETED[n]) =>
            /\ left_dist[n] = LiveDepth(Child(n, 1))
            /\ right_dist[n] = LiveDepth(Child(n, 2))

\* C7: Scenario A.  ((A:1,B:1):1,(C:3,D:3):1) with t = 2 and support
\* unconstrained returns {C}, {D}, {A,B} in this order; the node above A and B
\* (left_dist + right_dist = 2) is not cut at its own visit, and {A,B} is
\* emitted by the cut at the root, leaving no free leaf for a trailing cluster.
ScenarioA ==
    (IsScenarioTree /\ support = NegInf /\ threshold = 2) =>
        /\ (pc = "traverse" /\ pos = 4) =>
              /\ left_dist[<<1>>] = 1 /\ right_dist[<<1>>] = 1
              /\ ~DELETED[<<1, 1>>] /\ ~DELETED[<<1, 2>>]
              /\ clusters = <<>>
        /\ (pc = "traverse" /\ pos > Len(Postorder)) =>
              /\ leaves = {}
              /\ Flatten(clusters) = <<{"C"}, {"D"}, {"A", "B"}>>
        /\ pc = "done" => Flatten(clusters) = <<{"C"}, {"D"}, {"A", "B"}>>

ScenarioA_Witness ==
    /\ IsScenarioTree /\ support = NegInf /\ threshold = 2
    /\ pc = "done"
    /\ Len(clusters) = 3

\* C8: Deleted flag.  During a pass a DELETED flag that is true stays true,
\* and between the steps of the traversal every descendant of a deleted node
\* is deleted.
DeletedDownClosed ==
    pc \in {"traverse", "done"} =>
        \A n \in tree.nodes : DELETED[n] =>
            \A m \in Beneath(tree.nodes, n) : DELETED[m]
DeletedStaysSet ==
    pc \in {"traverse", "done"} =>
        \A n \in tree.nodes : DELETED[n] => DELETED'[n]
DeletedAppendOnlyClosed == []DeletedDownClosed /\ [][DeletedStaysSet]_vars

DeletedWitness ==
    /\ pc = "traverse"
    /\ \E n \in Internal(tree.nodes) : DELETED[n] /\ ~IsRoot(n)
    /\ \E n \in LeafNodes(tree.nodes) : ~DELETED[n]

\* C10: Within-cluster distance bound.  Two leaves of one returned cluster
\* are at tree path distance at most t, the edge lengths being those that
\* prep leaves (a low-support edge is infinite).
WithinClusterBound ==
    pc = "done" =>
        \A k \in 1..Len(clusters) : \A a, b \in Range(clusters[k]) :
            Leq(TreeDist(NodeOf(a), NodeOf(b)), threshold)

\* a cluster of three leaves, two of them exactly t apart, beside another cluster
WithinClusterWitness ==
    /\ pc = "done"
    /\ Len(clusters) >= 2
    /\ \E k \in 1..Len(clusters) :
          /\ Len(clusters[k]) >= 3
          /\ \E a, b \in Range(clusters[k]) : TreeDist(NodeOf(a), NodeOf(b)) = threshold
    /\ threshold > 0

----------------------------------------------------------------------------
(* argmax_clusters *)

\* In the search a length is a whole number of millionths, and the upper
\* bound, which get_dist_limit rounds to 3 decimal places, a whole number of
\* thousandths.
MaxU == 2
NUM_THRESH == 1000
SearchLens == {300, 800}

SearchTrees ==
    UNION {{MkTree(nodes, el, lb)
               : el \in [nodes \ {Root} -> SearchLens],
                 lb \in [Internal(nodes) \ {Root} -> {"", "0.5"}]}
           : nodes \in FullTrees(1) \cup FullTrees(2) \cup FullTrees(3)}

\* thresholds[k], k counted from 0: k*threshold/NUM_THRESH
Candidate(k, upper) == (k * upper) \div NUM_THRESH

RoundTo_Ceil(num, den, unit) ==
    LET q == num \div (den * unit)
    IN  IF num % (den * unit) = 0 THEN {unit * q} ELSE {unit * (q + 1)}

\* round(x, 3) for x = num/den, a thousandth being `unit`: the nearest
\* thousandth; a value halfway between two thousandths goes to the one its
\* binary representation is nearer to, so either can come out
RoundTo(num, den, unit) ==
    LET q == num \div (den * unit)
        r == num % (den * unit)
    IN  IF 2 * r < den * unit THEN {unit * q}
        ELSE IF 2 * r > den * unit THEN {unit * (q + 1)}
        ELSE {unit * q, unit * (q + 1)}

\* float(round(t, 3)), t in millionths
Round3(t) == RoundTo(t, 1, 1000)

RECURSIVE CountNonSingleton(_)
CountNonSingleton(cs) ==
    IF cs = <<>> THEN 0
    ELSE (IF Len(Head(cs)) > 1 THEN 1 ELSE 0) + CountNonSingleton(Tail(cs))

Better_GE(num, bestNum) == num >= bestNum

\* num_non_singleton > best_num
Better(num, bestNum) == num > bestNum

\* the threshold of the call after the scan
FinalThreshold(rawT, bestT) == bestT

InitSearch ==
    /\ tree \in SearchTrees
    /\ threshold \in {1000 * u : u \in 0..MaxU}
    /\ support = IF \E n \in tree.nodes : tree.label[n] = "0.5" THEN 80 ELSE NegInf
    /\ pc = "scan"
    /\ NoPass /\ NoSearch /\ NoHist

\* one iteration of the loop over enumerate(thresholds)
ScanStep ==
    /\ pc = "scan"
    /\ i <= NUM_THRESH
    /\ LET t == Candidate(i, threshold)
       IN  \E cs \in min_clusters_threshold_max_clade(tree, t, NegInf) :
               LET num_non_singleton == CountNonSingleton(cs)
               IN  /\ ys' = Append(ys, num_non_singleton)
                   /\ IF Better(num_non_singleton, best_num)
                      THEN /\ best' = cs
                           /\ best_num' = num_non_singleton
                           /\ raw_t' = t
                           /\ best_t' \in Round3(t)
                      ELSE UNCHANGED <<best, best_num, raw_t, best_t>>
    /\ i' = i + 1
    /\ UNCHANGED <<tree, threshold, support, pc, passVars, histVars>>

\* best = method(deepcopy(tree), best_t, support); return best
FinalRun ==
    /\ pc = "scan"
    /\ i > NUM_THRESH
    /\ best' \in min_clusters_threshold_max_clade(tree, FinalThreshold(raw_t, best_t), support)
    /\ pc' = "done"
    /\ UNCHANGED <<tree, threshold, support, i, ys, best_num, raw_t, best_t,
                   passVars, histVars>>

NextSearch == ScanStep \/ FinalRun

SpecSearch == InitSearch /\ [][NextSearch]_vars

----------------------------------------------------------------------------
(* Properties of argmax_clusters *)

\* the greatest of the recorded counts
MaxCount(seq) == CHOOSE m \in Range(seq) : \A k \in DOMAIN seq : seq[k] <= m

\* C3: Tie-break determinism.  A candidate whose count equals the stored best
\* never replaces it, and after the scan of t_0 .. t_1000 the recorded winner
\* is the lowest-index candidate among those whose count is the greatest of
\* the whole grid.
TieBreakStep ==
    (pc = "scan" /\ i >= 1 /\ Len(ys') = Len(ys) + 1 /\ ys'[Len(ys')] = best_num) =>
        (raw_t' = raw_t /\ best_num' = best_num /\ best_t' = best_t)
TieBreakFinal ==
    pc = "done" =>
        LET m == MaxCount(ys)
            w == CHOOSE k \in 1..Len(ys) : ys[k] = m /\ \A j \in 1..(k - 1) : ys[j] < m
        IN  /\ Len(ys) = NUM_THRESH + 1
            /\ best_num = m
            /\ raw_t = Candidate(w - 1, threshold)
TieBreak == []TieBreakFinal /\ [][TieBreakStep]_vars

\* the winner is neither the first nor the last candidate, and a later
\* candidate has the same count
TieBreakWitness ==
    /\ pc = "done"
    /\ raw_t > 0
    /\ raw_t < Candidate(NUM_THRESH - 1, threshold)
    /\ ys[NUM_THRESH + 1] = best_num

\* C4: the final run is at the winning threshold.  The threshold of the call
\* after the scan is the candidate that won, so with support unconstrained
\* the returned clusters have the greatest non-singleton count of the grid.
FinalRunAtWinner ==
    pc = "done" =>
        /\ FinalThreshold(raw_t, best_t) = raw_t
        /\ support = NegInf => CountNonSingleton(best) = MaxCount(ys)

FinalCountIsMax ==
    (pc = "done" /\ support = NegInf) => CountNonSingleton(best) = MaxCount(ys)

----------------------------------------------------------------------------
(* gen_hist and get_dist_limit *)

\* In the histogram a length is a whole number of units of 0.0002, so that
\* 0.001 is Milli units.  A bin edge is kept multiplied by the bin count,
\* which makes it a whole number.
Milli == 5

HistTrees == {tr \in Trees : \A n \in tr.nodes : tr.label[n] # "0.5"}

\* tree.distance_matrix(leaf_labels=True): the path length between every two
\* distinct leaves, an edge without a length counting 0; gen_hist runs on the
\* parsed tree, before prep
RawLen(tr) == [n \in tr.nodes |-> IF tr.edge_length[n] = None THEN 0 ELSE tr.edge_length[n]]
distance_matrix(tr) ==
    [p \in {q \in LeafNodes(tr.nodes) \X LeafNodes(tr.nodes) : q[1] # q[2]} |->
        SumLen(RawLen(tr),
               {m \in tr.nodes : (IsPrefix(m, p[1]) /\ ~IsPrefix(m, p[2]))
                                 \/ (IsPrefix(m, p[2]) /\ ~IsPrefix(m, p[1]))})]

\* int(math.ceil(math.sqrt(n) / 10.0)) * 10
BinSize(n) ==
    10 * (CHOOSE k \in 0..n : (10 * k) * (10 * k) >= n
                              /\ (k = 0 \/ (10 * (k - 1)) * (10 * (k - 1)) < n))

MinOf(S) == CHOOSE x \in S : \A y \in S : x <= y
MaxDist(pw) == CHOOSE x \in Range(pw) : \A y \in Range(pw) : y <= x

\* the range numpy.histogram bins over: (min, max), widened by 0.5 on each
\* side when all samples are equal
HistLo(pw) ==
    IF MinOf(Range(pw)) = MaxDist(pw) THEN MinOf(Range(pw)) - 500 * Milli
    ELSE MinOf(Range(pw))
HistHi(pw) ==
    IF MinOf(Range(pw)) = MaxDist(pw) THEN MaxDist(pw) + 500 * Milli
    ELSE MaxDist(pw)

\* index (from 0) of the bin of x: bins are half-open, the last one closed
BinIndex(x, lo, hi, bins) ==
    IF x = hi THEN bins - 1 ELSE ((x - lo) * bins) \div (hi - lo)

\* edge k (from 0) of numpy.linspace(lo, hi, bins + 1), multiplied by bins
BinEdge(k, lo, hi, bins) == bins * lo + k * (hi - lo)

SumSeq(seq, from, to) ==
    LET RECURSIVE S(_)
        S(k) == IF k > to THEN 0 ELSE seq[k] + S(k + 1)
    IN  S(from)

\* statistics.mean(histarray[a:b]) < statistics.mean(histarray[:5]),
\* a and b counted from 0 as in the slice
WindowBelow(hist, a, b) ==
    SumSeq(hist, a + 1, b) * 5 < SumSeq(hist, 1, 5) * (b - a)

InitHist ==
    /\ tree \in HistTrees
    /\ threshold = None
    /\ support = NegInf
    /\ pc = "gen_hist"
    /\ NoPass /\ NoSearch /\ NoHist

\* gen_hist, the loops over distance_matrix
CollectDists ==
    /\ pc = "gen_hist"
    /\ pw_dists' = distance_matrix(tree)
    /\ pc' = "hist"
    /\ UNCHANGED <<tree, threshold, support, passVars, searchVars, histarray,
                   binsarray, maxarray, d>>

\* gen_hist, from bin_size on; plt.hist raises ValueError when there is no
\* sample (bins = 0)
GenHist ==
    /\ pc = "hist"
    /\ LET bin_size == BinSize(Cardinality(DOMAIN pw_dists))
       IN  IF bin_size = 0
           THEN /\ pc' = "ValueError"
                /\ UNCHANGED <<histarray, binsarray, i>>
           ELSE LET lo == HistLo(pw_dists)
                    hi == HistHi(pw_dists)
                IN  /\ histarray' =
                          [k \in 1..bin_size |->
                              Cardinality({p \in DOMAIN pw_dists :
                                  BinIndex(pw_dists[p], lo, hi, bin_size) = k - 1})]
                    /\ binsarray' =
                          [k \in 1..(bin_size + 1) |-> BinEdge(k - 1, lo, hi, bin_size)]
                    /\ i' = 5
                    /\ pc' = "get_dist_limit"
    /\ UNCHANGED <<tree, threshold, support, passVars, ys, best_num, raw_t, best_t,
                   best, pw_dists, maxarray, d>>

\* one iteration of: for i in range(5, len(histarray))
ScanBin ==
    /\ pc = "get_dist_limit"
    /\ i < Len(histarray)
    /\ maxarray' = IF WindowBelow(histarray, i - 5, i)
                   THEN Append(maxarray, binsarray[i + 1])
                   ELSE maxarray
    /\ i' = i + 1
    /\ UNCHANGED <<tree, threshold, support, pc, passVars, ys, best_num, raw_t,
                   best_t, best, pw_dists, histarray, binsarray, d>>

\* d = round(float(maxarray[1]), 3); maxarray[1] raises IndexError when
\* fewer than two edges were recorded
ReturnLimit ==
    /\ pc = "get_dist_limit"
    /\ i >= Len(histarray)
    /\ IF Len(maxarray) < 2
       THEN pc' = "IndexError" /\ UNCHANGED d
       ELSE /\ d' \in RoundTo(maxarray[2], Len(histarray), Milli)
            /\ pc' = "done"
    /\ UNCHANGED <<tree, threshold, support, passVars, searchVars, pw_dists,
                   histarray, binsarray, maxarray>>

NextHist == CollectDists \/ GenHist \/ ScanBin \/ ReturnLimit

SpecHist == InitHist /\ [][NextHist]_vars

----------------------------------------------------------------------------
(* Properties of get_dist_limit *)

MaxSample == MaxDist(pw_dists)

\* C9 as stated: Monotonic upper bound.  The value get_dist_limit returns,
\* the second recorded bin edge rounded to 3 decimal places, is never larger
\* than the greatest pairwise distance of the sample.
LimitAtMostMax ==
    pc = "done" => d <= MaxSample

\* C9 amended: the second recorded bin edge, before rounding, is never larger
\* than the greatest pairwise distance of the sample, and the returned value,
\* which is that edge rounded to 3 decimal places, exceeds the greatest
\* pairwise distance by at most 0.0005.
LimitNearMax ==
    pc = "done" =>
        /\ maxarray[2] <= Len(histarray) * MaxSample
        /\ 2 * (d - MaxSample) <= Milli

\* a returned limit above every distance of the sample
LimitWitness ==
    /\ pc = "done"
    /\ d > MaxSample
    /\ maxarray[2] < Len(histarray) * MaxSample

====
